---------------------------- MODULE Spec2Model ----------------------------
(***************************************************************************)
(* A model of the two utilities of the repository:                         *)
(*   - the gold-price dashboard (case_study_raport.py): the date helper    *)
(*     parse_validate_date, the validation stage, the fetch handler and    *)
(*     the display / export section of a page run;                         *)
(*   - the ranking script (pandas_copilot.py): top_genres_top_movies and   *)
(*     main.                                                               *)
(* Text is a sequence of characters, a character is a one-letter string    *)
(* (a precomposed letter with a diacritic is written "z_acute", the        *)
(* combining mark "combining_acute"). A calendar date is its proleptic     *)
(* Gregorian ordinal, as date.toordinal() gives it.                        *)
(***************************************************************************)
EXTENDS Integers, Sequences, FiniteSets, TLC

VARIABLES
    \* ---- parse_validate_date called on a text or a date ----
    value,          \* the argument `value`
    parsed,         \* what the call gave: a date or the reason it stopped
    \* ---- one session of the dashboard ----
    pc,             \* where the current page run is
    start_date,     \* the start date of the current run
    end_date,       \* the end date of the current run
    clicked,        \* whether the fetch button fired in this run
    msg,            \* the message the validation stage showed
    gold_data,      \* st.session_state['gold_data']
    before,         \* gold_data as it was when the current run started
    response,       \* what the price service answered in this run
    requests,       \* the windows requested in this run
    shown,          \* the rows the table displays
    export,         \* the spreadsheet and its file name
    \* ---- the ranking script ----
    movies,         \* the input table
    top_n_genres,
    top_n_movies,
    result,         \* what top_genres_top_movies returned
    rpc,            \* where main / the call is
    exit_code,      \* what main returned
    out_file        \* the file main wrote

dateVars == <<value, parsed>>
dashVars == <<pc, start_date, end_date, clicked, msg, gold_data, before,
              response, requests, shown, export>>
rankVars == <<movies, top_n_genres, top_n_movies, result, rpc, exit_code, out_file>>
vars == <<dateVars, dashVars, rankVars>>

(***************************************************************************)
(* Calendar dates                                                          *)
(***************************************************************************)
IsLeap(y) == (y % 4 = 0) /\ ((y % 100 # 0) \/ (y % 400 = 0))

DaysInMonth(y, m) ==
    IF m = 2 THEN (IF IsLeap(y) THEN 29 ELSE 28)
    ELSE IF m \in {4, 6, 9, 11} THEN 30 ELSE 31

RECURSIVE DaysBeforeMonth(_, _)
DaysBeforeMonth(y, m) ==
    IF m = 1 THEN 0 ELSE DaysBeforeMonth(y, m - 1) + DaysInMonth(y, m - 1)

\* date(y, m, d).toordinal()
Ordinal(y, m, d) ==
    365 * (y - 1) + ((y - 1) \div 4) - ((y - 1) \div 100) + ((y - 1) \div 400)
        + DaysBeforeMonth(y, m) + d

(***************************************************************************)
(* Text                                                                    *)
(***************************************************************************)
LowerCase == <<"a","b","c","d","e","f","g","h","i","j","k","l","m",
               "n","o","p","q","r","s","t","u","v","w","x","y","z">>
UpperCase == <<"A","B","C","D","E","F","G","H","I","J","K","L","M",
               "N","O","P","Q","R","S","T","U","V","W","X","Y","Z">>
Digits == <<"0","1","2","3","4","5","6","7","8","9">>

RECURSIVE IndexOf(_, _, _)
IndexOf(seq, x, i) ==
    IF i > Len(seq) THEN 0
    ELSE IF seq[i] = x THEN i ELSE IndexOf(seq, x, i + 1)

RECURSIVE Flatten(_)
Flatten(ss) == IF ss = <<>> THEN <<>> ELSE Head(ss) \o Flatten(Tail(ss))

\* unicodedata.normalize('NFKD', ch) for one character
NFKD(ch) ==
    CASE ch = "z_acute" -> <<"z", "combining_acute">>
      [] ch = "Z_acute" -> <<"Z", "combining_acute">>
      [] ch = "n_acute" -> <<"n", "combining_acute">>
      [] ch = "N_acute" -> <<"N", "combining_acute">>
      [] ch = "s_acute" -> <<"s", "combining_acute">>
      [] ch = "S_acute" -> <<"S", "combining_acute">>
      [] OTHER -> <<ch>>

\* unicodedata.combining(ch) # 0
combining(ch) == ch = "combining_acute"

Range(seq) == { seq[i] : i \in 1..Len(seq) }

LowerOf == [ch \in Range(UpperCase) |-> LowerCase[IndexOf(UpperCase, ch, 1)]]

\* str.lower() for one character
lower(ch) == IF ch \in DOMAIN LowerOf THEN LowerOf[ch] ELSE ch

LowerAll(s) == [i \in 1..Len(s) |-> lower(s[i])]

\* _normalize(s): NFKD, drop the combining marks, lower-case
normalize(s) ==
    LET nf == Flatten([i \in 1..Len(s) |-> NFKD(s[i])])
    IN  LowerAll(SelectSeq(nf, LAMBDA ch : ~combining(ch)))

\* what the pattern's \w matches
WordChars == Range(LowerCase) \cup Range(UpperCase) \cup Range(Digits)
             \cup {"_", "z_acute", "Z_acute", "n_acute", "N_acute", "s_acute", "S_acute"}

IsWordChar(ch) == ch \in WordChars

January   == <<"J","a","n","u","a","r","y">>
February  == <<"F","e","b","r","u","a","r","y">>
March     == <<"M","a","r","c","h">>
April     == <<"A","p","r","i","l">>
May       == <<"M","a","y">>
June      == <<"J","u","n","e">>
July      == <<"J","u","l","y">>
August    == <<"A","u","g","u","s","t">>
September == <<"S","e","p","t","e","m","b","e","r">>
October   == <<"O","c","t","o","b","e","r">>
November  == <<"N","o","v","e","m","b","e","r">>
December  == <<"D","e","c","e","m","b","e","r">>

\* month_map, in the order of its keys: <<Polish token, English month>>
month_map == <<
    << <<"s","t","y","c","z","e","n">>, January >>,
    << <<"s","t","y","c","z","n","i","a">>, January >>,
    << <<"s","t","y">>, January >>,
    << <<"l","u","t","y">>, February >>,
    << <<"l","u","t","e","g","o">>, February >>,
    << <<"l","u","t">>, February >>,
    << <<"m","a","r","z","e","c">>, March >>,
    << <<"m","a","r","c","a">>, March >>,
    << <<"m","a","r">>, March >>,
    << <<"k","w","i","e","c","i","e","n">>, April >>,
    << <<"k","w","i","e","t","n","i","a">>, April >>,
    << <<"k","w","i">>, April >>,
    << <<"m","a","j">>, May >>,
    << <<"m","a","j","a">>, May >>,
    << <<"c","z","e","r","w","i","e","c">>, June >>,
    << <<"c","z","e","r","w","c","a">>, June >>,
    << <<"c","z","e">>, June >>,
    << <<"l","i","p","i","e","c">>, July >>,
    << <<"l","i","p","c","a">>, July >>,
    << <<"l","i","p">>, July >>,
    << <<"s","i","e","r","p","i","e","n">>, August >>,
    << <<"s","i","e","r","p","n","i","a">>, August >>,
    << <<"s","i","e">>, August >>,
    << <<"w","r","z","e","s","i","e","n">>, September >>,
    << <<"w","r","z","e","s","n","i","a">>, September >>,
    << <<"w","r","z">>, September >>,
    << <<"p","a","z","d","z","i","e","r","n","i","k">>, October >>,
    << <<"p","a","z","d","z","i","e","r","n","i","k","a">>, October >>,
    << <<"p","a","z">>, October >>,
    << <<"p","a","z","d","z">>, October >>,
    << <<"l","i","s","t","o","p","a","d">>, November >>,
    << <<"l","i","s","t","o","p","a","d","a">>, November >>,
    << <<"l","i","s">>, November >>,
    << <<"g","r","u","d","z","i","e","n">>, December >>,
    << <<"g","r","u","d","z","n","i","a">>, December >>,
    << <<"g","r","u">>, December >>
>>

\* whether `key` stands in s at position i, letter case ignored (re.IGNORECASE)
MatchesAt(s, i, key) ==
    /\ i + Len(key) - 1 <= Len(s)
    /\ \A j \in 1..Len(key) : lower(s[i + j - 1]) = lower(key[j])

\* \b between position i - 1 and position i of s
boundary(s, i) ==
    LET l == (i > 1) /\ IsWordChar(s[i - 1])
        r == (i <= Len(s)) /\ IsWordChar(s[i])
    IN  l # r

\* the first alternative of the pattern that matches at i with \b on both sides
\* (0: none)
RECURSIVE FirstKey(_, _, _)
FirstKey(s, i, k) ==
    IF k > Len(month_map) THEN 0
    ELSE IF MatchesAt(s, i, month_map[k][1])
            /\ boundary(s, i + Len(month_map[k][1]))
         THEN k
         ELSE FirstKey(s, i, k + 1)

\* the pattern written without its \b: the first alternative that matches at i
RECURSIVE FirstKeyAnywhere(_, _, _)
FirstKeyAnywhere(s, i, k) ==
    IF k > Len(month_map) THEN 0
    ELSE IF MatchesAt(s, i, month_map[k][1]) THEN k
         ELSE FirstKeyAnywhere(s, i, k + 1)

PatternAtAnywhere(s, i) == FirstKeyAnywhere(s, i, 1)

PatternAt(s, i) == IF boundary(s, i) THEN FirstKey(s, i, 1) ELSE 0

\* re.sub(pattern, _repl, s, flags=re.IGNORECASE), scanning from position i
RECURSIVE re_sub(_, _)
re_sub(s, i) ==
    IF i > Len(s) THEN <<>>
    ELSE LET k == PatternAt(s, i)
         IN  IF k = 0 THEN <<s[i]>> \o re_sub(s, i + 1)
             ELSE month_map[k][2] \o re_sub(s, i + Len(month_map[k][1]))


(***************************************************************************)
(* pd.to_datetime(text, dayfirst=True, errors='raise'): the library's      *)
(* parser, for the texts of the form "day month-name year" separated by    *)
(* blanks; month names are English, full or three letters, in any letter   *)
(* case. Every other text raises.                                          *)
(***************************************************************************)
EnglishMonths == <<January, February, March, April, May, June, July, August,
                   September, October, November, December>>

\* the words of s: its maximal runs of characters other than the blank
RECURSIVE SplitWords(_, _, _)
SplitWords(s, i, cur) ==
    IF i > Len(s) THEN (IF cur = <<>> THEN <<>> ELSE <<cur>>)
    ELSE IF s[i] = " "
         THEN (IF cur = <<>> THEN <<>> ELSE <<cur>>) \o SplitWords(s, i + 1, <<>>)
         ELSE SplitWords(s, i + 1, Append(cur, s[i]))

\* the number a word of digits writes (-1: not a number)
RECURSIVE Number(_, _, _)
Number(w, i, acc) ==
    IF i > Len(w) THEN (IF w = <<>> THEN -1 ELSE acc)
    ELSE LET d == IndexOf(Digits, w[i], 1)
         IN  IF d = 0 THEN -1 ELSE Number(w, i + 1, 10 * acc + (d - 1))

\* the month a word names (0: none)
RECURSIVE MonthNamed(_, _)
MonthNamed(w, m) ==
    IF m > Len(EnglishMonths) THEN 0
    ELSE LET name == LowerAll(EnglishMonths[m])
         IN  IF LowerAll(w) = name \/ LowerAll(w) = SubSeq(name, 1, 3)
             THEN m
             ELSE MonthNamed(w, m + 1)

NoDate == <<>>

\* <<ordinal>> of the date the text writes, NoDate when the parser raises
pd_to_datetime(s) ==
    LET w == SplitWords(s, 1, <<>>)
    IN  IF Len(w) # 3 THEN NoDate
        ELSE LET d == Number(w[1], 1, 0)
                 m == MonthNamed(w[2], 1)
                 y == Number(w[3], 1, 0)
             IN  IF /\ Len(w[1]) <= 2 /\ Len(w[3]) = 4
                    /\ m # 0 /\ y >= 1
                    /\ d >= 1 /\ d <= DaysInMonth(y, m)
                 THEN <<Ordinal(y, m, d)>>
                 ELSE NoDate

\* str(value).strip()
RECURSIVE lstrip(_)
lstrip(s) == IF s # <<>> /\ Head(s) = " " THEN lstrip(Tail(s)) ELSE s

RECURSIVE rstrip(_)
rstrip(s) ==
    IF s # <<>> /\ s[Len(s)] = " " THEN rstrip(SubSeq(s, 1, Len(s) - 1)) ELSE s

strip(s) == rstrip(lstrip(s))

\* the text handed to the parser (the local s_repl)
s_repl_of(text) == re_sub(normalize(strip(text)), 1)

(***************************************************************************)
(* parse_validate_date(value, label, min_date, max_date). A value is       *)
(*   [kind |-> "date", day |-> ordinal], [kind |-> "datetime", day, secs]  *)
(*   or [kind |-> "str", text |-> characters];                             *)
(* min_date and max_date are NoDate (None) or <<ordinal>>. The call gives  *)
(* [status |-> "ok", date |-> ordinal] or stops the run with status        *)
(* "invalid_format", "too_early" or "too_late".                            *)
(***************************************************************************)
parse_validate_date(v, min_date, max_date) ==
    LET p == IF v.kind \in {"date", "datetime"}
             THEN <<v.day>>
             ELSE pd_to_datetime(s_repl_of(v.text))
    IN  IF p = NoDate THEN [status |-> "invalid_format"]
        ELSE IF min_date # NoDate /\ p[1] < min_date[1] THEN [status |-> "too_early"]
        ELSE IF max_date # NoDate /\ p[1] > max_date[1] THEN [status |-> "too_late"]
        ELSE [status |-> "ok", date |-> p[1]]

\* min_api_date = datetime(2013, 1, 2).date()
min_api_date == Ordinal(2013, 1, 2)

\* max_allowed = datetime.now().date(): the day the session runs
max_allowed == Ordinal(2023, 12, 31)

(***************************************************************************)
(* The values parse_validate_date is called on                             *)
(***************************************************************************)
\* the most pieces between the day and the year of a text
MaxParts == 2

WordPieces == { <<"m","a","j">>, <<"M","A","J">>, <<"a">>, <<"A">>,
                <<"p","a","z_acute">>, <<"P","A","Z_acute">>, <<"x">>, <<" ">> }

Prefixes == { <<"3"," ">>, <<"3">>, <<" ","3"," ">> }

Suffixes == { <<" ","2","0","2","3">>, <<" ","2","0","1","2">>, <<" ","2","0","2","4">> }

PieceSeqs == UNION { [1..n -> WordPieces] : n \in 1..MaxParts }

UpperOf == [ch \in Range(LowerCase) |-> UpperCase[IndexOf(LowerCase, ch, 1)]]

UpperAll(w) == [i \in 1..Len(w) |-> IF w[i] \in DOMAIN UpperOf THEN UpperOf[w[i]] ELSE w[i]]

\* month names as they are written with their diacritics
DiacriticForms == {
    <<"s","t","y","c","z","e","n_acute">>,
    <<"k","w","i","e","c","i","e","n_acute">>,
    <<"S","i","e","r","p","i","e","n_acute">>,
    <<"w","r","z","e","s","i","e","n_acute">>,
    <<"w","r","z","e","s_acute","n","i","a">>,
    <<"W","R","Z","E","S_acute","N","I","A">>,
    <<"p","a","z_acute","d","z","i","e","r","n","i","k">>,
    <<"p","a","z_acute","d","z","i","e","r","n","i","k","a">>,
    <<"P","a","z_acute","d","z">>,
    <<"g","r","u","d","z","i","e","n_acute">>,
    <<"G","R","U","D","Z","I","E","N_acute">> }

\* every token of month_map in lower and in upper case, and the forms above
TokenForms ==
    { month_map[k][1] : k \in 1..Len(month_map) }
    \cup { UpperAll(month_map[k][1]) : k \in 1..Len(month_map) }
    \cup DiacriticForms

Texts ==
    { pre \o Flatten(ps) \o suf : pre \in Prefixes, ps \in PieceSeqs, suf \in Suffixes }
    \cup { <<"3", " ">> \o f \o <<" ", "2", "0", "2", "3">> : f \in TokenForms }

SomeDays == { min_api_date - 1, min_api_date, Ordinal(2023, 5, 3), max_allowed,
              max_allowed + 1 }

Values ==
    { [kind |-> "str", text |-> t] : t \in Texts }
    \cup { [kind |-> "date", day |-> d] : d \in SomeDays }
    \cup { [kind |-> "datetime", day |-> d, secs |-> 43200] : d \in SomeDays }

\* the (min_date, max_date) pairs of the calls
BoundPairs == { <<NoDate, NoDate>>, <<<<min_api_date>>, <<max_allowed>>>> }

NotCalled == [status |-> "not_called"]

DateIdle == /\ value = [kind |-> "date", day |-> min_api_date]
            /\ parsed = NotCalled

DateInit == /\ value \in Values
            /\ parsed = NotCalled

\* one call parse_validate_date(value, min_date=mn, max_date=mx); the record keeps
\* the arguments and, for a text, the local s_repl beside the outcome
Call(mn, mx) ==
    /\ parsed = NotCalled
    /\ parsed' = [status |-> "returned", min_date |-> mn, max_date |-> mx,
                  s_repl |-> IF value.kind = "str" THEN s_repl_of(value.text) ELSE <<>>,
                  res |-> parse_validate_date(value, mn, mx)]
    /\ UNCHANGED value
    /\ UNCHANGED <<dashVars, rankVars>>

(***************************************************************************)
(* The dashboard: one page run is the script from top to bottom, in three  *)
(* stages: the date inputs and their validation (lines 57-155), the fetch  *)
(* button (158-170), the display and export section (173-273).             *)
(***************************************************************************)
\* the dates the two date inputs can hold
InputDates == { min_api_date - 1, min_api_date, min_api_date + 93, min_api_date + 94,
                Ordinal(2023, 1, 1), Ordinal(2023, 6, 1), max_allowed, max_allowed + 1 }

\* prices of one gram, in grosze
Prices == { 25000, 26000 }

\* the validation stage with the 93-day check written >= 93
ValidateInclusive(s, e) ==
    LET ps == parse_validate_date([kind |-> "date", day |-> s],
                                  <<min_api_date>>, <<max_allowed>>)
        pe == parse_validate_date([kind |-> "date", day |-> e],
                                  <<min_api_date>>, <<max_allowed>>)
    IN  IF ps.status # "ok"
        THEN (IF ps.status = "too_early" THEN "start_too_early" ELSE "start_too_late")
        ELSE IF pe.status # "ok"
        THEN (IF pe.status = "too_early" THEN "end_too_early" ELSE "end_too_late")
        ELSE IF ps.date > pe.date THEN "start_after_end"
        ELSE IF pe.date - ps.date >= 93 THEN "range_too_long"
        ELSE "none"

\* the validation stage without the start > end check
ValidateNoOrder(s, e) ==
    LET ps == parse_validate_date([kind |-> "date", day |-> s],
                                  <<min_api_date>>, <<max_allowed>>)
        pe == parse_validate_date([kind |-> "date", day |-> e],
                                  <<min_api_date>>, <<max_allowed>>)
    IN  IF ps.status # "ok"
        THEN (IF ps.status = "too_early" THEN "start_too_early" ELSE "start_too_late")
        ELSE IF pe.status # "ok"
        THEN (IF pe.status = "too_early" THEN "end_too_early" ELSE "end_too_late")
        ELSE IF pe.date - ps.date > 93 THEN "range_too_long"
        ELSE "none"

\* lines 144-155: the message that stops the run, "none" when the run goes on
Validate(s, e) ==
    LET ps == parse_validate_date([kind |-> "date", day |-> s],
                                  <<min_api_date>>, <<max_allowed>>)
        pe == parse_validate_date([kind |-> "date", day |-> e],
                                  <<min_api_date>>, <<max_allowed>>)
    IN  IF ps.status # "ok"
        THEN (IF ps.status = "too_early" THEN "start_too_early" ELSE "start_too_late")
        ELSE IF pe.status # "ok"
        THEN (IF pe.status = "too_early" THEN "end_too_early" ELSE "end_too_late")
        ELSE IF ps.date > pe.date THEN "start_after_end"
        ELSE IF pe.date - ps.date > 93 THEN "range_too_long"
        ELSE "none"

\* what the price service can answer for a window: a transport exception, a
\* status other than 200, or 200 with a list of records, one per quoted day
Records(s, e) == [data : {s, e}, cena : Prices]

RecordLists(s, e) ==
    {<<>>} \cup { <<r>> : r \in Records(s, e) }
           \cup { p \in Records(s, e) \X Records(s, e) : p[1].data # p[2].data }

Responses(s, e) ==
    { [kind |-> "exception"], [kind |-> "status", code |-> 404],
      [kind |-> "status", code |-> 500] }
    \cup { [kind |-> "status", code |-> 200, json |-> l] : l \in RecordLists(s, e) }

None == [none |-> TRUE]

\* get_gold_prices: the decoded list for status 200, None otherwise
get_gold_prices(resp) ==
    IF resp.kind = "status" /\ resp.code = 200
    THEN [none |-> FALSE, list |-> resp.json]
    ELSE None

\* `if data:`
Truthy(data) == ~data.none /\ data.list # <<>>

\* df.sort_values('data') on rows of distinct dates
RECURSIVE InsertByData(_, _)
InsertByData(r, rows) ==
    IF rows = <<>> THEN <<r>>
    ELSE IF r.data < Head(rows).data THEN <<r>> \o rows
    ELSE <<Head(rows)>> \o InsertByData(r, Tail(rows))

RECURSIVE SortByData(_)
SortByData(rows) ==
    IF rows = <<>> THEN <<>> ELSE InsertByData(Head(rows), SortByData(Tail(rows)))

NoData == [present |-> FALSE]

\* lines 164-166: the frame built from the decoded list
Frame(list) ==
    [present |-> TRUE, columns |-> <<"data", "cena">>, rows |-> SortByData(list)]

\* the handler storing whatever came back: a failed fetch clears the slot
StoredOrCleared(data, old) ==
    IF Truthy(data) THEN Frame(data.list) ELSE [present |-> FALSE]

\* lines 162-169: what the slot holds after the handler
Stored(data, old) == IF Truthy(data) THEN Frame(data.list) ELSE old

\* lines 213-215: df['data_display'] = ... on the frame df names
DataDisplay(d) == [strftime |-> "%d %b %Y", day |-> d]

WithDisplay(f) ==
    [present |-> TRUE,
     columns |-> IF IndexOf(f.columns, "data_display", 1) # 0 THEN f.columns
                 ELSE Append(f.columns, "data_display"),
     rows |-> [i \in 1..Len(f.rows) |->
                 [data |-> f.rows[i].data, cena |-> f.rows[i].cena,
                  data_display |-> DataDisplay(f.rows[i].data)]]]

NoExport == [made |-> FALSE]

\* to_excel(df) and the download button's file_name
to_excel(f, s, e) ==
    [made |-> TRUE, sheet |-> "Ceny zlota", columns |-> f.columns, rows |-> f.rows,
     file_name |-> <<"ceny_zlota_", s, "_", e, ".xlsx">>]

DashIdle ==
    /\ pc = "idle"
    /\ start_date = max_allowed - 30
    /\ end_date = max_allowed
    /\ clicked = FALSE
    /\ msg = "none"
    /\ gold_data = NoData
    /\ before = NoData
    /\ response = [kind |-> "none"]
    /\ requests = <<>>
    /\ shown = <<>>
    /\ export = NoExport

\* a rerun starts (a widget changed or the button fired) and runs to the end of
\* the validation stage
Rerun(s, e, c) ==
    /\ pc \in {"idle", "stopped", "done"}
    /\ start_date' = s
    /\ end_date' = e
    /\ clicked' = c
    /\ msg' = Validate(s, e)
    /\ pc' = IF Validate(s, e) = "none" THEN "button" ELSE "stopped"
    /\ before' = gold_data
    /\ response' = [kind |-> "none"]
    /\ requests' = <<>>
    /\ shown' = <<>>
    /\ export' = NoExport
    /\ UNCHANGED gold_data
    /\ UNCHANGED <<dateVars, rankVars>>

\* lines 158-170 with the button fired
Fetch(resp) ==
    /\ pc = "button"
    /\ clicked
    /\ requests' = Append(requests, <<start_date, end_date>>)
    /\ response' = resp
    /\ gold_data' = Stored(get_gold_prices(resp), gold_data)
    /\ pc' = "display"
    /\ UNCHANGED <<start_date, end_date, clicked, msg, before, shown, export>>
    /\ UNCHANGED <<dateVars, rankVars>>

\* line 158 with the button not fired
NoFetch ==
    /\ pc = "button"
    /\ ~clicked
    /\ pc' = "display"
    /\ UNCHANGED <<start_date, end_date, clicked, msg, gold_data, before,
                   response, requests, shown, export>>
    /\ UNCHANGED <<dateVars, rankVars>>

\* lines 173-273: df is the stored frame itself, so the column it gains is a
\* column of the stored frame
Display ==
    /\ pc = "display"
    /\ pc' = "done"
    /\ IF gold_data.present
       THEN /\ gold_data' = WithDisplay(gold_data)
            /\ shown' = gold_data'.rows
            /\ export' = to_excel(gold_data', start_date, end_date)
       ELSE UNCHANGED <<gold_data, shown, export>>
    /\ UNCHANGED <<start_date, end_date, clicked, msg, before, response, requests>>
    /\ UNCHANGED <<dateVars, rankVars>>

(***************************************************************************)
(* The ranking script. A table is [columns |-> set of names, rows |->      *)
(* sequence of rows]; a row's title is its place in the input, a missing   *)
(* star_rating (NaN) is <<>>, a present one <<r>>. Series.sort_values and  *)
(* DataFrame.sort_values are called without `kind`, so they sort with the  *)
(* library's default quicksort, which is not stable: every arrangement in  *)
(* descending key order is an outcome.                                     *)
(***************************************************************************)
\* the most rows of an input table
MaxMovies == 3

\* the largest top_n_genres and top_n_movies of a direct call
MaxTop == 2

Genres == {"Comedy", "Drama"}

Ratings == {<<>>, <<8>>, <<9>>}

FullColumns == {"title", "star_rating", "duration", "genre"}

Row(i, g, r) == [title |-> i, star_rating |-> r, duration |-> 120, genre |-> g]

\* tables with every column, without star_rating, without genre
Tables ==
    UNION { { [columns |-> FullColumns,
               rows |-> [i \in 1..n |-> Row(i, g[i], r[i])]] :
                 g \in [1..n -> Genres], r \in [1..n -> Ratings] }
            \cup { [columns |-> FullColumns \ {"star_rating"},
                    rows |-> [i \in 1..n |-> Row(i, g[i], <<>>)]] :
                      g \in [1..n -> Genres] }
            \cup { [columns |-> FullColumns \ {"genre"},
                    rows |-> [i \in 1..n |-> Row(i, "", r[i])]] :
                      r \in [1..n -> Ratings] }
          : n \in 0..MaxMovies }

Min(a, b) == IF a <= b THEN a ELSE b

\* .head(n + 1)
headOneMore(seq, n) == SubSeq(seq, 1, Min(n + 1, Len(seq)))

\* .head(n)
head(seq, n) == SubSeq(seq, 1, Min(n, Len(seq)))

\* .fillna(-1) on one rating
fillna(r) == IF r = <<>> THEN -1 ELSE r[1]

\* the distinct genres in first-seen order, each with its count: value_counts
\* before its sort
RECURSIVE Uniques(_, _)
Uniques(rows, seen) ==
    IF rows = <<>> THEN seen
    ELSE Uniques(Tail(rows),
                 IF IndexOf(seen, Head(rows).genre, 1) # 0 THEN seen
                 ELSE Append(seen, Head(rows).genre))

CountOf(rows, g) == Len(SelectSeq(rows, LAMBDA r : r.genre = g))

Counted(rows) ==
    LET u == Uniques(rows, <<>>)
    IN  [i \in 1..Len(u) |-> [genre |-> u[i], count |-> CountOf(rows, u[i])]]

Perms(n) == { p \in [1..n -> 1..n] : \A i, j \in 1..n : i # j => p[i] # p[j] }

\* sort_values(ascending=False) with the default kind, on the keys of the rows:
\* the indexers (arrangements of the positions) in which the key never rises
SortDesc(keys) ==
    { q \in Perms(Len(keys)) :
        \A i \in 1..(Len(keys) - 1) : keys[q[i]] >= keys[q[i + 1]] }

\* .iloc[indexer]
Take(items, q) == [i \in 1..Len(items) |-> items[q[i]]]

\* movies['genre'].value_counts(): the counted genres, sorted by count
value_counts(rows) ==
    LET c == Counted(rows)
    IN  { Take(c, q) : q \in SortDesc([i \in 1..Len(c) |-> c[i].count]) }

\* .nlargest(n).index.tolist() of one outcome of value_counts (keep='first')
nlargest(counts, n) == [i \in 1..Len(head(counts, n)) |-> counts[i].genre]

\* line 36: the outcomes of top_genres
TopGenres(rows, n) == { nlargest(c, n) : c \in value_counts(rows) }

\* lines 40-43: the outcomes of dfg after the sort
SortedGroup(m, g) ==
    LET dfg == SelectSeq(m.rows, LAMBDA r : r.genre = g)
        sr == [i \in 1..Len(dfg) |-> fillna(dfg[i].star_rating)]
    IN  IF "star_rating" \in m.columns
        THEN { Take(dfg, q) : q \in SortDesc(sr) }
        ELSE {dfg}

\* line 44: the columns kept, in the order of the tuple
Projected(columns) ==
    SelectSeq(<<"title", "star_rating", "duration", "genre">>, LAMBDA c : c \in columns)

\* lines 45-46: sel of one sorted group
Selected(sorted, g, n) ==
    [i \in 1..Len(head(sorted, n)) |->
        [genre_group |-> g, title |-> sorted[i].title,
         star_rating |-> sorted[i].star_rating, duration |-> sorted[i].duration,
         genre |-> sorted[i].genre]]

\* lines 38-47: the outcomes of pd.concat(frames) for the genres gs, in order
RECURSIVE Frames(_, _, _)
Frames(m, gs, n) ==
    IF gs = <<>> THEN {<<>>}
    ELSE { Selected(first, Head(gs), n) \o rest :
             first \in SortedGroup(m, Head(gs)), rest \in Frames(m, Tail(gs), n) }

EmptyFrame == [columns |-> <<>>, rows |-> <<>>]

\* top_genres_top_movies(movies, top_n_genres, top_n_movies) on a table with a
\* genre column: the frames it can return
top_genres_top_movies(m, ng, nm) ==
    UNION { IF gs = <<>> THEN {EmptyFrame}
            ELSE { [columns |-> <<"genre_group">> \o Projected(m.columns), rows |-> rs] :
                     rs \in Frames(m, gs, nm) }
          : gs \in TopGenres(m.rows, ng) }

\* result.empty
empty(f) == f.rows = <<>> \/ f.columns = <<>>

NoFile == [written |-> FALSE]

NotReturned == <<>>

RankIdle ==
    /\ movies = [columns |-> FullColumns, rows |-> <<>>]
    /\ top_n_genres = 5
    /\ top_n_movies = 5
    /\ result = EmptyFrame
    /\ rpc = "idle"
    /\ exit_code = NotReturned
    /\ out_file = NoFile

\* a direct call top_genres_top_movies(movies, top_n_genres, top_n_movies)
RankInit ==
    /\ movies \in Tables
    /\ top_n_genres \in 1..MaxTop
    /\ top_n_movies \in 1..MaxTop
    /\ result = EmptyFrame
    /\ rpc = "call"
    /\ exit_code = NotReturned
    /\ out_file = NoFile

\* lines 33-34
RankRaise ==
    /\ rpc \in {"call", "loaded"}
    /\ "genre" \notin movies.columns
    /\ rpc' = "raised"
    /\ UNCHANGED <<movies, top_n_genres, top_n_movies, result, exit_code, out_file>>
    /\ UNCHANGED <<dateVars, dashVars>>

\* lines 36-53
RankReturn ==
    /\ rpc \in {"call", "loaded"}
    /\ "genre" \in movies.columns
    /\ result' \in top_genres_top_movies(movies, top_n_genres, top_n_movies)
    /\ rpc' = IF rpc = "call" THEN "returned" ELSE "ranked"
    /\ UNCHANGED <<movies, top_n_genres, top_n_movies, exit_code, out_file>>
    /\ UNCHANGED <<dateVars, dashVars>>

(***************************************************************************)
(* main(): the download, the ranking with top_n_genres = top_n_movies = 5, *)
(* the report                                                              *)
(***************************************************************************)
MainInit ==
    /\ movies \in Tables
    /\ top_n_genres = 5
    /\ top_n_movies = 5
    /\ result = EmptyFrame
    /\ rpc = "start"
    /\ exit_code = NotReturned
    /\ out_file = NoFile

\* lines 61-65: read_csv_simple raises, main returns 1
LoadFails ==
    /\ rpc = "start"
    /\ rpc' = "load_failed"
    /\ exit_code' = <<1>>
    /\ UNCHANGED <<movies, top_n_genres, top_n_movies, result, out_file>>
    /\ UNCHANGED <<dateVars, dashVars>>

\* lines 61-67: the table is loaded
Loaded ==
    /\ rpc = "start"
    /\ rpc' = "loaded"
    /\ UNCHANGED <<movies, top_n_genres, top_n_movies, result, exit_code, out_file>>
    /\ UNCHANGED <<dateVars, dashVars>>

\* main writing the file before it looks at result.empty
ReportWritesFirst(res) ==
    [exit |-> IF empty(res) THEN <<1>> ELSE <<0>>,
     file |-> [written |-> TRUE, name |-> "top5_genres_top_movies.csv",
               columns |-> res.columns, rows |-> res.rows]]

\* lines 72-82: what main returns and the file it leaves, given the result
Report(res) ==
    IF empty(res)
    THEN [exit |-> <<1>>, file |-> NoFile]
    ELSE [exit |-> <<0>>,
          file |-> [written |-> TRUE, name |-> "top5_genres_top_movies.csv",
                    columns |-> res.columns, rows |-> res.rows]]

Finish ==
    /\ rpc = "ranked"
    /\ rpc' = "done"
    /\ exit_code' = Report(result).exit
    /\ out_file' = Report(result).file
    /\ UNCHANGED <<movies, top_n_genres, top_n_movies, result>>
    /\ UNCHANGED <<dateVars, dashVars>>

(***************************************************************************)
(* Specifications                                                          *)
(***************************************************************************)
\* calls of parse_validate_date
InitDate == DateInit /\ DashIdle /\ RankIdle

NextDate == \E b \in BoundPairs : Call(b[1], b[2])

SpecDate == InitDate /\ [][NextDate]_vars

\* a session of the dashboard
Init == DateIdle /\ DashIdle /\ RankIdle

Next ==
    \/ \E s \in InputDates, e \in InputDates, c \in BOOLEAN : Rerun(s, e, c)
    \/ \E resp \in Responses(start_date, end_date) : Fetch(resp)
    \/ NoFetch
    \/ Display

Spec == Init /\ [][Next]_vars

\* direct calls of top_genres_top_movies
InitRank == DateIdle /\ DashIdle /\ RankInit

NextRank == RankRaise \/ RankReturn

SpecRank == InitRank /\ [][NextRank]_vars

\* runs of main
InitMain == DateIdle /\ DashIdle /\ MainInit

NextMain == LoadFails \/ Loaded \/ RankRaise \/ RankReturn \/ Finish

SpecMain == InitMain /\ [][NextMain]_vars

(***************************************************************************)
(* The dashboard's properties                                              *)
(***************************************************************************)
InArchive(d) == Ordinal(2013, 1, 2) <= d /\ d <= max_allowed

RangeMessages == {"start_too_early", "start_too_late", "end_too_early", "end_too_late"}

\* C1: a page run passes the validation stage exactly when start <= end, the span
\* is at most 93 days and both dates lie in [2013-01-02, today]; a stopped run
\* shows the message of a condition that is violated: a range message only for a
\* date out of the archive, the order message only for start > end, the span
\* message only for a span above 93 days.
C1_ValidationAcceptsExactlyValidRanges ==
    pc # "idle" =>
        /\ (pc # "stopped") <=> (msg = "none")
        /\ (msg = "none") <=>
              /\ start_date <= end_date
              /\ end_date - start_date <= 93
              /\ InArchive(start_date) /\ InArchive(end_date)
        /\ msg = "start_too_early" => start_date < Ordinal(2013, 1, 2)
        /\ msg = "start_too_late" => start_date > max_allowed
        /\ msg = "end_too_early" => end_date < Ordinal(2013, 1, 2)
        /\ msg = "end_too_late" => end_date > max_allowed
        /\ msg \in RangeMessages <=> ~(InArchive(start_date) /\ InArchive(end_date))
        /\ msg = "start_after_end" <=>
              (InArchive(start_date) /\ InArchive(end_date) /\ start_date > end_date)
        /\ msg = "range_too_long" <=>
              (InArchive(start_date) /\ InArchive(end_date)
               /\ end_date - start_date > 93)

\* the 151-day window 2023-01-01 .. 2023-06-01 is refused for its span
C1_Witness ==
    /\ pc = "stopped"
    /\ start_date = Ordinal(2023, 1, 1)
    /\ end_date = Ordinal(2023, 6, 1)
    /\ end_date - start_date = 151
    /\ msg = "range_too_long"

FetchFailed ==
    \/ response.kind = "exception"
    \/ response.kind = "status" /\ response.code # 200
    \/ response.kind = "status" /\ response.code = 200 /\ response.json = <<>>

\* C2: in a run whose fetch ended in an exception, a status other than 200 or an
\* empty list, the stored series is the one the run started with, and at the end
\* of the run the table shows that series.
C2_FailedFetchKeepsSeries ==
    (pc \in {"display", "done"} /\ clicked /\ FetchFailed) =>
        /\ gold_data = before
        /\ (pc = "done" /\ before.present) => shown = before.rows

\* a 404 in a session that already shows a series
C2_Witness ==
    /\ pc = "done"
    /\ clicked
    /\ response.kind = "status" /\ response.code = 404
    /\ before.present
    /\ shown = before.rows

\* C7: the exported sheet's columns are exactly data and cena, its rows are the
\* rows displayed, and the file name carries the selected start and end dates.
C7_ExportIsPricePoints ==
    export.made =>
        /\ export.columns = <<"data", "cena">>
        /\ export.rows = shown
        /\ export.file_name = <<"ceny_zlota_", start_date, "_", end_date, ".xlsx">>

\* C8: the stored series changes only in the fetch handler's step, by a
\* successful fetch replacing it.
C8_SlotChangesOnlyAtFetch ==
    [][gold_data' # gold_data =>
          (pc = "button" /\ clicked /\ Truthy(get_gold_prices(response')))]_vars

\* C10: a request is issued only in a run with the button fired and a window that
\* passed validation, and is a request for that window; a stopped run issues none
\* and leaves the stored series alone; a run that passed validation with the
\* button fired issues exactly one.
C10_RequestOnlyForValidWindow ==
    /\ requests # <<>> =>
          /\ clicked
          /\ start_date <= end_date
          /\ end_date - start_date <= 93
          /\ InArchive(start_date) /\ InArchive(end_date)
          /\ requests = << <<start_date, end_date>> >>
    /\ pc = "stopped" => (requests = <<>> /\ gold_data = before)
    /\ (pc \in {"display", "done"} /\ clicked) => Len(requests) = 1
    /\ ~clicked => requests = <<>>

\* one request for a 93-day window, answered with two records
C10_Witness ==
    /\ pc = "display"
    /\ requests = << <<Ordinal(2013, 1, 2), Ordinal(2013, 1, 2) + 93>> >>
    /\ response.kind = "status" /\ response.code = 200
    /\ Len(response.json) = 2

(***************************************************************************)
(* The ranking script's properties                                         *)
(***************************************************************************)
GenresPresent == { movies.rows[i].genre : i \in 1..Len(movies.rows) }

GroupsIn(res) == { res.rows[i].genre_group : i \in 1..Len(res.rows) }

GroupRows(res, g) == SelectSeq(res.rows, LAMBDA r : r.genre_group = g)

InputRows(g) == SelectSeq(movies.rows, LAMBDA r : r.genre = g)

Titles(rows) == [i \in 1..Len(rows) |-> rows[i].title]

\* C3: the result of a call on a table with a genre column holds exactly
\* min(top_n_genres, number of distinct genres) genre groups, and the group of a
\* genre holds exactly min(top_n_movies, number of input rows of that genre) rows.
C3_GroupCounts ==
    rpc = "returned" =>
        /\ Cardinality(GroupsIn(result))
              = Min(top_n_genres, Cardinality(GenresPresent))
        /\ \A g \in GroupsIn(result) :
              /\ Len(GroupRows(result, g)) = Min(top_n_movies, Len(InputRows(g)))
              /\ Len(GroupRows(result, g)) <= top_n_movies

\* both cut-offs bite: two genres present and one asked for, more rows of the
\* genre than asked for
C3_Witness ==
    /\ rpc = "returned"
    /\ top_n_genres = 1
    /\ top_n_movies = 1
    /\ Cardinality(GenresPresent) = 2
    /\ Len(movies.rows) = 3
    /\ Len(result.rows) = 1

\* keyed items in descending key order, items of equal key in their given order
RECURSIVE InsertStable(_, _)
InsertStable(x, sorted) ==
    IF sorted = <<>> THEN <<x>>
    ELSE IF Head(sorted).key >= x.key
         THEN <<Head(sorted)>> \o InsertStable(x, Tail(sorted))
         ELSE <<x>> \o sorted

RECURSIVE StableDesc(_, _)
StableDesc(items, acc) ==
    IF items = <<>> THEN acc
    ELSE StableDesc(Tail(items), InsertStable(Head(items), acc))

MissingLast(r) == IF r.star_rating = <<>> THEN -1 ELSE r.star_rating[1]

\* C4: each genre group is the first top_n_movies rows of the genre's input rows
\* ordered by star_rating descending, the rows without a rating last, rows of
\* equal rating (and the rows without one) in their input order.
C4_GroupIsStableTop ==
    (rpc = "returned" /\ "star_rating" \in movies.columns) =>
        \A g \in GroupsIn(result) :
            Titles(GroupRows(result, g))
                = LET keyed == [i \in 1..Len(InputRows(g)) |->
                                  [key |-> MissingLast(InputRows(g)[i]),
                                   title |-> InputRows(g)[i].title]]
                  IN  Titles(head(StableDesc(keyed, <<>>), top_n_movies))

\* the genre groups of a result, in the order they come
RECURSIVE GroupOrder(_, _)
GroupOrder(rows, seen) ==
    IF rows = <<>> THEN seen
    ELSE GroupOrder(Tail(rows),
                    IF IndexOf(seen, Head(rows).genre_group, 1) # 0 THEN seen
                    ELSE Append(seen, Head(rows).genre_group))

ExampleRows == << Row(1, "Comedy", <<8>>), Row(2, "Comedy", <<>>), Row(3, "Drama", <<9>>) >>

\* C5: the groups come in descending count order of their genres, genres of equal
\* count in the order of their first rows, cut to top_n_genres; the example table
\* gives Comedy [A, B], then Drama [C].
C5_GenresByCountThenFirstSeen ==
    rpc = "returned" =>
        /\ LET counted == Counted(movies.rows)
               keyed == [i \in 1..Len(counted) |->
                           [key |-> counted[i].count, genre |-> counted[i].genre]]
               ranked == StableDesc(keyed, <<>>)
           IN  GroupOrder(result.rows, <<>>)
                   = [i \in 1..Min(top_n_genres, Len(ranked)) |-> ranked[i].genre]
        /\ (movies.rows = ExampleRows /\ movies.columns = FullColumns
            /\ top_n_genres = 2 /\ top_n_movies = 2) =>
              /\ Titles(result.rows) = <<1, 2, 3>>
              /\ [i \in 1..3 |-> result.rows[i].genre_group]
                    = <<"Comedy", "Comedy", "Drama">>

\* C9: main returns 0 only after the table was loaded and the ranking gave a
\* non-empty result, and then the file top5_genres_top_movies.csv holds that
\* result; it returns 1 when the download raises and when the result is empty;
\* whenever it has not returned 0 (the ranking raising included) no file exists.
C9_ExitCodeAndFile ==
    /\ exit_code = <<0>> =>
          /\ rpc = "done"
          /\ ~empty(result)
          /\ out_file.written
          /\ out_file.name = "top5_genres_top_movies.csv"
          /\ out_file.rows = result.rows
    /\ rpc = "load_failed" => exit_code = <<1>>
    /\ (rpc = "done" /\ empty(result)) => exit_code = <<1>>
    /\ rpc = "done" => exit_code \in {<<0>>, <<1>>}
    /\ exit_code # <<0>> => ~out_file.written

\* a run that ranks a loaded table and writes the report
C9_Witness ==
    /\ rpc = "done"
    /\ exit_code = <<0>>
    /\ out_file.written
    /\ Len(out_file.rows) = MaxMovies

(***************************************************************************)
(* The date helper's properties                                            *)
(***************************************************************************)
\* a letter without its case and its diacritic
Plain(ch) ==
    CASE ch \in {"z_acute", "Z_acute"} -> "z"
      [] ch \in {"n_acute", "N_acute"} -> "n"
      [] ch \in {"s_acute", "S_acute"} -> "s"
      [] ch \in DOMAIN LowerOf -> LowerOf[ch]
      [] OTHER -> ch

PlainAll(w) == [i \in 1..Len(w) |-> Plain(w[i])]

\* the whole words of a text: <<first, last>> of each maximal run of word
\* characters
WholeWords(t) ==
    { r \in (1..Len(t)) \X (1..Len(t)) :
        /\ r[1] <= r[2]
        /\ \A i \in r[1]..r[2] : IsWordChar(t[i])
        /\ (r[1] = 1 \/ ~IsWordChar(t[r[1] - 1]))
        /\ (r[2] = Len(t) \/ ~IsWordChar(t[r[2] + 1])) }

\* the month_map entries a word is a form of
EntriesFor(w) == { k \in 1..Len(month_map) : month_map[k][1] = PlainAll(w) }

\* the whole words of a text that are forms of a Polish month token
TokenWords(t) == { r \in WholeWords(t) : EntriesFor(SubSeq(t, r[1], r[2])) # {} }

\* the text with the word r replaced by the English name of entry k
Substituted(t, r, k) ==
    SubSeq(t, 1, r[1] - 1) \o month_map[k][2] \o SubSeq(t, r[2] + 1, Len(t))

Text_3_maja_2023 == <<"3", " ", "m", "a", "j", "a", " ", "2", "0", "2", "3">>

Text_3_MAJA_2023 == <<"3", " ", "M", "A", "J", "A", " ", "2", "0", "2", "3">>

=============================================================================
